---------------------------- MODULE Spec2Model ----------------------------
(***************************************************************************)
(* Model of scirpy's graph utilities (src/scirpy/util/graph.py) and of the *)
(* plot_edges monkey-patch (src/sctcrpy/_plotting/_clonotypes.py).         *)
(*                                                                         *)
(* Numbers: every float of the program is an exact rational <<num, den>>   *)
(* (den = 0 stands for the result of a division by zero); rounding of     *)
(* IEEE doubles is not modelled.  n ** 0.8 is irrational and is kept in    *)
(* fixed point, see _get_bbox_dimensions.                                  *)
(***************************************************************************)
EXTENDS Integers, Sequences, FiniteSets, TLC

VARIABLES
    \* ---- igraph_from_sparse_matrix and its helpers
    matrix,          \* the sparse matrix argument: [n, fmt, data]
    matrix_type,     \* "connectivity" | "distance"
    max_value,       \* {} for None, {m} for an explicit value m
    called,          \* the function that was called ("" before the call)
    raised,          \* "" or the exception the call ended with
    connectivities,  \* value returned by _distance_to_connectivity
    adj,             \* argument handed to _get_igraph_from_adjacency
    g,               \* the graph that was built
    warned,          \* TRUE iff logging.warning was emitted
    \* ---- the box packers (_bbox_sorted, _bbox_rpack, _bbox_squarify)
    component_sizes, \* sequence of component sizes handed to the packer
    pad_x, pad_y,    \* padding
    arrange_boxes,   \* "" before the call, then "size" | "rpack" | "squarify"
    dimensions,      \* _bbox_rpack: the reversed integer footprints
    origins,         \* _bbox_rpack: what rpack.pack returned
    bboxes,          \* the returned bounding boxes
    \* ---- layout_components
    graph,           \* the graph argument: [n, edges], vertices 0..n-1
    discovered,      \* graph.decompose(): per component the v["id"] of its vertices
    order,           \* np.argsort(component_sizes)
    components,      \* the components after sorting
    vertex_ids,
    vertex_sorter,
    layouts,         \* per component what component.layout() returned
    component_layouts,
    coords,          \* the returned coordinates, one row per vertex
    \* ---- _patch_plot_edges, _no_matplotlib_warnings, clonotype_network
    plot_edges,      \* sc.plotting._utils.plot_edges, the shared function
    mpl_level,       \* level of the "matplotlib" logger
    stack,           \* the active with-blocks, innermost last
    exc,             \* TRUE while an exception propagates
    last             \* how the block left last ended: "" | "returned" | "raised"

graph_vars == <<matrix, matrix_type, max_value, called, raised,
                connectivities, adj, g, warned>>

box_vars == <<component_sizes, pad_x, pad_y, arrange_boxes, dimensions, origins, bboxes>>

layout_vars == <<graph, discovered, order, components, vertex_ids, vertex_sorter,
                 layouts, component_layouts, coords>>

patch_vars == <<plot_edges, mpl_level, stack, exc, last>>

vars == <<graph_vars, box_vars, layout_vars, patch_vars>>

-----------------------------------------------------------------------------
(* Bounds *)
MaxDim == 2          \* matrices are n x n, n in 1..MaxDim
MaxStored == 2       \* stored entries on or above the diagonal
MaxVal == 3          \* stored distance codes / weights are 0..MaxVal
MaxMaxValue == 2     \* explicit max_value in 1..MaxMaxValue
MaxComps == 3        \* number of components handed to a packer directly
MaxCompSize == 5     \* vertices per component handed to a packer directly
MaxPad == 1          \* pad_x, pad_y up to MaxPad
Scale == 10          \* n ** 0.8 is kept in units of 1 / Scale
MaxN == 3            \* vertices of the graph handed to layout_components
MaxCoord == 1        \* raw layout coordinates are multiples of MaxCoord
MaxDepth == 4        \* with-blocks active at the same time

-----------------------------------------------------------------------------
(* Exact rationals *)
Rat(a, b) == <<a, b>>
IsZero(r) == r[1] = 0 /\ r[2] # 0
\* r <= 0 for a finite r, whatever the sign of its denominator
LeqZero(r) == r[2] # 0 /\ r[1] * r[2] <= 0

-----------------------------------------------------------------------------
(* Sparse matrices: data maps the stored positions to their values *)
Positions(n) == (0 .. n - 1) \X (0 .. n - 1)
Upper(n) == {p \in Positions(n) : p[1] <= p[2]}
Mirror(p) == <<p[2], p[1]>>
Formats == {"csr", "csc", "coo"}
NoMatrix == [n |-> 0, fmt |-> "none", data |-> <<>>]
NoGraph == [vcount |-> 0, directed |-> FALSE, es |-> <<>>]

SymmetricData(n) ==
    UNION {
        { [p \in P \cup {Mirror(q) : q \in P} |->
              Rat(IF p \in P THEN val[p] ELSE val[Mirror(p)], 1)]
          : val \in [P -> 0 .. MaxVal] }
        : P \in {Q \in SUBSET Upper(n) : Cardinality(Q) <= MaxStored} }

Matrices ==
    UNION { { [n |-> n, fmt |-> f, data |-> d]
              : f \in Formats, d \in SymmetricData(n) }
            : n \in 1 .. MaxDim }

tocsr_keeps_format(m) == m

\* matrix.tocsr()
tocsr(m) == [m EXCEPT !.fmt = "csr"]

\* np.max(distances): the maximum over all n*n entries, implicit zeros included
RECURSIVE MaxOf(_)
MaxOf(S) ==
    IF S = {} THEN 0
    ELSE LET x == CHOOSE y \in S : TRUE
             r == MaxOf(S \ {x})
         IN IF x > r THEN x ELSE r

np_max(m) == MaxOf({m.data[p][1] : p \in DOMAIN m.data} \cup
                   (IF Cardinality(DOMAIN m.data) < m.n * m.n THEN {0} ELSE {}))

\* connectivities.eliminate_zeros(): drops the stored entries equal to zero
eliminate_zeros(m) ==
    LET keep == {p \in DOMAIN m.data : ~IsZero(m.data[p])}
    IN [m EXCEPT !.data = [p \in keep |-> m.data[p]]]

\* lines 67-74 of _distance_to_connectivity: (max_value - (v - 1)) / max_value
ConnectivityData(distances, mv) ==
    LET maxv == IF mv = {} THEN np_max(distances) ELSE CHOOSE m \in mv : TRUE
        conv(v) == Rat(maxv * v[2] - (v[1] - v[2]), maxv * v[2])
    IN eliminate_zeros([distances EXCEPT
                           !.data = [p \in DOMAIN distances.data |-> conv(distances.data[p])]])

FormatError == "ValueError: Distance matrix must be in CSR format."

\* _distance_to_connectivity(distances, max_value=mv): [raised, value]
distance_to_connectivity(distances, mv) ==
    IF distances.fmt # "csr"
    THEN [raised |-> FormatError, value |-> NoMatrix]
    ELSE [raised |-> "", value |-> ConnectivityData(distances, mv)]

\* adj.nonzero(): coordinates of the nonzero entries in row-major order
nonzero(m) ==
    LET all == [k \in 1 .. m.n * m.n |-> <<(k - 1) \div m.n, (k - 1) % m.n>>]
    IN SelectSeq(all, LAMBDA p : p \in DOMAIN m.data /\ ~IsZero(m.data[p]))

GetIgraphDedup(a) ==
    LET st == SelectSeq(nonzero(a), LAMBDA p : p[1] <= p[2])
    IN [vcount |-> a.n, directed |-> FALSE,
        es |-> [k \in 1 .. Len(st) |->
                  [source |-> st[k][1], target |-> st[k][2], weight |-> a.data[st[k]]]]]

\* _get_igraph_from_adjacency: the graph (the warning is in GraphWarning)
GetIgraphFromAdjacency(a) ==
    LET st == nonzero(a)
    IN [vcount |-> a.n, directed |-> FALSE,
        es |-> [k \in 1 .. Len(st) |->
                  [source |-> st[k][1], target |-> st[k][2], weight |-> a.data[st[k]]]]]

\* g.vcount() != adj.shape[0]
GraphWarning(gr, a) == gr.vcount # a.n

-----------------------------------------------------------------------------
(* Sequences indexed from 0, as the program's lists and arrays are *)
At(s, i) == s[i + 1]
Reverse(s) == [i \in 1 .. Len(s) |-> s[Len(s) + 1 - i]]
Perms(k) == {p \in [1 .. k -> 0 .. k - 1] : \A i, j \in 1 .. k : i # j => p[i] # p[j]}
\* a[p] for an index array p
Take(a, p) == [i \in 1 .. Len(p) |-> At(a, p[i])]
Neg(a) == [i \in 1 .. Len(a) |-> 0 - a[i]]

argsort_descending(a) ==
    {p \in Perms(Len(a)) : \A i \in 1 .. Len(a) - 1 : At(a, p[i]) >= At(a, p[i + 1])}

\* np.argsort(a) with the default kind ("quicksort", which numpy documents as
\* not stable): any index array that sorts a ascending may be returned
argsort(a) ==
    {p \in Perms(Len(a)) : \A i \in 1 .. Len(a) - 1 : At(a, p[i]) <= At(a, p[i + 1])}

-----------------------------------------------------------------------------
(* Bounding boxes: [x, y, w, h, den, of] stands for the tuple                *)
(* (x/den, y/den, w/den, h/den); of is the position in component_sizes of    *)
(* the size the box was computed from.                                       *)

\* n ** 0.8 in units of 1/Scale: the largest k with (k/Scale)^5 <= n^4
Pow08(n) ==
    LET X == Scale * Scale * Scale * Scale * Scale * n * n * n * n
    IN CHOOSE k \in 0 .. Scale * n :
          k * k * k * k * k <= X /\ (k + 1) * (k + 1) * (k + 1) * (k + 1) * (k + 1) > X

\* _get_bbox_dimensions(n, power=0.8), in units of 1/Scale
get_bbox_dimensions(n) == <<Pow08(n), Pow08(n)>>

\* the loop of _bbox_sorted from position i on, with the loop variables x, y, current_n
RECURSIVE BboxSortedLoop(_, _, _, _, _, _, _)
BboxSortedLoop(sizes, px, py, i, x, y, current_n) ==
    IF i > Len(sizes) THEN <<>>
    ELSE LET n == sizes[i]
             d == get_bbox_dimensions(n)
             brk == ~(n = current_n)
             x1 == IF brk THEN 0 ELSE x
             y1 == IF brk THEN y + d[2] + py * Scale ELSE y
             bbox == [x |-> x1, y |-> y1, w |-> d[1], h |-> d[2], den |-> Scale, of |-> i - 1]
         IN <<bbox>> \o BboxSortedLoop(sizes, px, py, i + 1, x1 + d[1] + px * Scale, y1,
                                       IF brk THEN n ELSE current_n)

bbox_sorted_break_first(sizes, px, py) == BboxSortedLoop(sizes, px, py, 1, 0, 0, 0)

\* _bbox_sorted(component_sizes, pad_x, pad_y)
bbox_sorted(sizes, px, py) == BboxSortedLoop(sizes, px, py, 1, 0, 0, 1)

\* lines 202-207 of _bbox_rpack: the integer footprints, largest first
RpackDimensions(sizes, px, py) ==
    LET dims == [i \in 1 .. Len(sizes) |-> get_bbox_dimensions(sizes[i])]
        rev == Reverse(dims)
    IN [i \in 1 .. Len(rev) |->
          <<(rev[i][1] + px * Scale) \div Scale, (rev[i][2] + py * Scale) \div Scale>>]

RectsOverlap(o1, d1, o2, d2) ==
    /\ o1[1] < o2[1] + d2[1] /\ o2[1] < o1[1] + d1[1]
    /\ o1[2] < o2[2] + d2[2] /\ o2[2] < o1[2] + d1[2]

\* rpack.enclosing_size(dimensions, origins)
enclosing_size(dims, orig) ==
    <<MaxOf({orig[i][1] + dims[i][1] : i \in 1 .. Len(dims)}),
      MaxOf({orig[i][2] + dims[i][2] : i \in 1 .. Len(dims)})>>

\* All ways to put the rectangles down one after the other, each with its
\* left edge at 0 or at the right edge of an earlier one and its lower edge
\* at 0 or at the upper edge of an earlier one, without overlap.
RECURSIVE Place(_, _)
Place(dims, placed) ==
    IF Len(placed) = Len(dims) THEN {placed}
    ELSE LET i == Len(placed) + 1
             xs == {0} \cup {placed[j][1] + dims[j][1] : j \in 1 .. i - 1}
             ys == {0} \cup {placed[j][2] + dims[j][2] : j \in 1 .. i - 1}
             free == {o \in xs \X ys :
                        \A j \in 1 .. i - 1 : ~RectsOverlap(o, dims[i], placed[j], dims[j])}
         IN UNION {Place(dims, Append(placed, o)) : o \in free}

RECURSIVE MinOf(_)
MinOf(S) ==
    LET x == CHOOSE y \in S : TRUE
    IN IF S = {x} THEN x
       ELSE LET r == MinOf(S \ {x}) IN IF x < r THEN x ELSE r

\* rpack.pack(dimensions): the external rectangle packer returns integer
\* origins, one per rectangle in the order given, of a packing without
\* overlap whose enclosing rectangle has minimal area.
rpack_pack(dims) ==
    LET all == Place(dims, <<>>)
        area(o) == enclosing_size(dims, o)[1] * enclosing_size(dims, o)[2]
        best == MinOf({area(o) : o \in all})
    IN {o \in all : area(o) = best}

\* lines 209-223 of _bbox_rpack, in units of 1/H for the enclosing size (W, H)
RpackBoxes(dims, orig, px, py) ==
    LET outer == enclosing_size(dims, orig)
        W == outer[1]
        H == outer[2]
        wide == W > H          \* aspect_ratio > 1
        k == Len(dims)
    IN [i \in 1 .. k |->
          [x |-> orig[i][1] * H,
           y |-> orig[i][2] * H,
           w |-> (IF wide THEN dims[i][1] * H ELSE dims[i][1] * W) - px * H,
           h |-> (IF wide THEN dims[i][2] * W ELSE dims[i][2] * H) - py * H,
           den |-> H,
           of |-> k - i]]

bbox_rpack_not_reversed(sizes, orig, px, py) ==
    RpackBoxes(RpackDimensions(sizes, px, py), orig, px, py)

\* _bbox_rpack(component_sizes, pad_x, pad_y), given what rpack.pack returned
bbox_rpack(sizes, orig, px, py) ==
    Reverse(RpackBoxes(RpackDimensions(sizes, px, py), orig, px, py))

Sum(s) == LET RECURSIVE S(_)
              S(i) == IF i = 0 THEN 0 ELSE s[i] + S(i - 1)
          IN S(Len(s))
Prefix(s, i) == Sum(SubSeq(s, 1, i - 1))
Abs(v) == IF v < 0 THEN 0 - v ELSE v

\* squarify.normalize_sizes(sizes, 100, 100) and squarify.padded_squarify(
\* sizes, 0, 0, 100, 100): the external treemap returns one rectangle per
\* size, in the order of the sizes, with an area proportional to the size;
\* the model lets it slice the 100 x 100 canvas into columns or into rows.
\* Rectangles are in units of 1 / (2 * total).
squarify_rects(sizes) ==
    LET total == Sum(sizes)
        cols == [i \in 1 .. Len(sizes) |->
                   [x |-> 200 * Prefix(sizes, i), y |-> 0,
                    dx |-> 200 * sizes[i], dy |-> 200 * total]]
        rows == [i \in 1 .. Len(sizes) |->
                   [x |-> 0, y |-> 200 * Prefix(sizes, i),
                    dx |-> 200 * total, dy |-> 200 * sizes[i]]]
    IN {cols, rows}

\* the loop of _bbox_squarify (lines 243-256): square each rectangle, subtract the padding
SquarifyBoxes(rects, ord, den, px, py) ==
    [i \in 1 .. Len(rects) |->
       LET r == rects[i]
           delta == Abs(r.dx - r.dy)
       IN IF r.dx > r.dy
          THEN [x |-> r.x + delta \div 2, y |-> r.y,
                w |-> r.dy - px * den, h |-> r.dy - py * den, den |-> den, of |-> ord[i]]
          ELSE [x |-> r.x, y |-> r.y + delta \div 2,
                w |-> r.dx - px * den, h |-> r.dx - py * den, den |-> den, of |-> ord[i]]]

\* undo_order = np.argsort(ord): ord holds distinct values, so the result is unique
UndoOrder(ord) == CHOOSE p \in argsort(ord) : TRUE

\* _bbox_squarify(component_sizes, pad_x, pad_y), given the result of
\* np.argsort(-component_sizes) and what the treemap returned
bbox_squarify(sizes, ord, rects, px, py) ==
    Take(SquarifyBoxes(rects, ord, 2 * Sum(sizes), px, py), UndoOrder(ord))

-----------------------------------------------------------------------------
GraphInit ==
    /\ matrix \in Matrices
    /\ matrix_type = "distance"
    /\ max_value = {}
    /\ called = ""
    /\ raised = ""
    /\ connectivities = NoMatrix
    /\ adj = NoMatrix
    /\ g = NoGraph
    /\ warned = FALSE

GraphIdle ==
    /\ matrix = NoMatrix
    /\ matrix_type = "distance"
    /\ max_value = {}
    /\ called = ""
    /\ raised = ""
    /\ connectivities = NoMatrix
    /\ adj = NoMatrix
    /\ g = NoGraph
    /\ warned = FALSE

MaxValues == {{}} \cup {{m} : m \in 1 .. MaxMaxValue}

\* igraph_from_sparse_matrix(matrix, matrix_type=..., max_value=...)
IgraphFromSparseMatrix ==
    /\ called = ""
    /\ \E t \in {"connectivity", "distance"}, mv \in MaxValues :
         LET csr == tocsr(matrix)
             r == IF t = "distance" THEN distance_to_connectivity(csr, mv)
                  ELSE [raised |-> "", value |-> csr]
             gr == GetIgraphFromAdjacency(r.value)
         IN /\ matrix_type' = t
            /\ max_value' = (IF t = "distance" THEN mv ELSE {})
            /\ called' = "igraph_from_sparse_matrix"
            /\ raised' = r.raised
            /\ connectivities' = (IF t = "distance" THEN r.value ELSE NoMatrix)
            /\ IF r.raised # ""
               THEN UNCHANGED <<adj, g, warned>>
               ELSE /\ adj' = r.value
                    /\ g' = gr
                    /\ warned' = GraphWarning(gr, r.value)
    /\ UNCHANGED <<matrix, box_vars, layout_vars, patch_vars>>

\* _distance_to_connectivity(distances, max_value=...) called on its own
DistanceToConnectivity ==
    /\ called = ""
    /\ \E mv \in MaxValues :
         LET r == distance_to_connectivity(matrix, mv)
         IN /\ max_value' = mv
            /\ called' = "_distance_to_connectivity"
            /\ raised' = r.raised
            /\ connectivities' = r.value
    /\ UNCHANGED <<matrix, matrix_type, adj, g, warned, box_vars, layout_vars, patch_vars>>

\* _get_igraph_from_adjacency(adj) called on its own with a CSR matrix
GetIgraph ==
    /\ called = ""
    /\ matrix.fmt = "csr"
    /\ called' = "_get_igraph_from_adjacency"
    /\ adj' = matrix
    /\ g' = GetIgraphFromAdjacency(matrix)
    /\ warned' = GraphWarning(GetIgraphFromAdjacency(matrix), matrix)
    /\ raised' = ""
    /\ UNCHANGED <<matrix, matrix_type, max_value, connectivities,
                   box_vars, layout_vars, patch_vars>>

-----------------------------------------------------------------------------
(* The box packers called on their own *)

\* sizes as layout_components hands them over: sorted ascending
AscendingSizes(maxLen, maxSize) ==
    UNION { {q \in [1 .. k -> 1 .. maxSize] : \A i \in 1 .. k - 1 : q[i] <= q[i + 1]}
            : k \in 1 .. maxLen }

BoxIdle ==
    /\ component_sizes = <<>>
    /\ pad_x = 0
    /\ pad_y = 0
    /\ arrange_boxes = ""
    /\ dimensions = <<>>
    /\ origins = <<>>
    /\ bboxes = <<>>

BoxInit ==
    /\ component_sizes \in AscendingSizes(MaxComps, MaxCompSize)
    /\ pad_x \in 0 .. MaxPad
    /\ pad_y \in 0 .. MaxPad
    /\ arrange_boxes = ""
    /\ dimensions = <<>>
    /\ origins = <<>>
    /\ bboxes = <<>>

\* what a strategy can return: the locals of _bbox_rpack and the boxes
SortedOutcomes(sizes, px, py) ==
    {[dimensions |-> <<>>, origins |-> <<>>, bboxes |-> bbox_sorted(sizes, px, py)]}

RpackOutcomes(sizes, px, py) ==
    {[dimensions |-> RpackDimensions(sizes, px, py), origins |-> o,
      bboxes |-> bbox_rpack(sizes, o, px, py)]
     : o \in rpack_pack(RpackDimensions(sizes, px, py))}

SquarifyOutcomes(sizes, px, py) ==
    UNION { {[dimensions |-> <<>>, origins |-> <<>>,
              bboxes |-> bbox_squarify(sizes, ord, rects, px, py)]
             : rects \in squarify_rects(Take(sizes, ord))}
            : ord \in argsort(Neg(sizes)) }

\* bbox_fun(component_sizes, pad_x, pad_y) for bbox_fun selected by arrange_boxes
bbox_fun(strategy, sizes, px, py) ==
    CASE strategy = "rpack" -> RpackOutcomes(sizes, px, py)
      [] strategy = "size" -> SortedOutcomes(sizes, px, py)
      [] strategy = "squarify" -> SquarifyOutcomes(sizes, px, py)

CallBbox(strategy) ==
    /\ arrange_boxes = ""
    /\ arrange_boxes' = strategy
    /\ \E r \in bbox_fun(strategy, component_sizes, pad_x, pad_y) :
         /\ dimensions' = r.dimensions
         /\ origins' = r.origins
         /\ bboxes' = r.bboxes
    /\ UNCHANGED <<component_sizes, pad_x, pad_y, graph_vars, layout_vars, patch_vars>>

\* _bbox_sorted(component_sizes, pad_x, pad_y)
BboxSorted == CallBbox("size")

\* _bbox_rpack(component_sizes, pad_x, pad_y)
BboxRpack == CallBbox("rpack")

\* _bbox_squarify(component_sizes, pad_x, pad_y)
BboxSquarify == CallBbox("squarify")

-----------------------------------------------------------------------------
(* layout_components *)

Pairs(n) == {e \in Positions(n) : e[1] < e[2]}
Graphs == UNION { {[n |-> n, edges |-> E] : E \in SUBSET Pairs(n)} : n \in 1 .. MaxN }
NoInputGraph == [n |-> 0, edges |-> {}]

RECURSIVE Grow(_, _)
Grow(gr, S) ==
    LET T == S \cup {w \in 0 .. gr.n - 1 :
                       \E v \in S : <<v, w>> \in gr.edges \/ <<w, v>> \in gr.edges}
    IN IF T = S THEN S ELSE Grow(gr, T)

\* the vertices of the weakly connected component of v
ComponentOf(gr, v) == Grow(gr, {v})

RECURSIVE SplitComponents(_, _)
SplitComponents(gr, ids) ==
    IF ids = <<>> THEN <<>>
    ELSE LET m == Cardinality(ComponentOf(gr, ids[1]))
         IN <<SubSeq(ids, 1, m)>> \o SplitComponents(gr, SubSeq(ids, m + 1, Len(ids)))

\* graph.decompose(mode="weak") after v["id"] = i: the maximal connected
\* subgraphs, each with the ids of its vertices.  The components come in the
\* order of their smallest vertex (igraph scans the vertices by index); the
\* order of the vertices inside a component is igraph's choice: any order.
decompose(gr) ==
    { SplitComponents(gr, ids) :
        ids \in {q \in Perms(gr.n) :
                   \A i, j \in 1 .. gr.n :
                       (i < j /\ q[j] \notin ComponentOf(gr, q[i]))
                           => MinOf(ComponentOf(gr, q[i])) < MinOf(ComponentOf(gr, q[j]))} }

RECURSIVE Flatten(_)
Flatten(ss) == IF ss = <<>> THEN <<>> ELSE Head(ss) \o Flatten(Tail(ss))

VertexSorterForward(ids) == ids

\* vertex_sorter = np.argsort(vertex_ids): the ids are distinct, the result is unique
VertexSorter(ids) == CHOOSE p \in argsort(ids) : TRUE

\* component.layout(component_layout): igraph's layout is external; the model
\* lets it put the vertices of a component on a line through the origin
LayoutsOf(m) ==
    {[j \in 1 .. m |-> <<a * (j - 1), 0 - b * (j - 1)>>] : a, b \in {0, MaxCoord}}

RECURSIVE LayoutChoices(_)
LayoutChoices(comps) ==
    IF comps = <<>> THEN {<<>>}
    ELSE {<<l>> \o rest : l \in LayoutsOf(Len(Head(comps))), rest \in LayoutChoices(Tail(comps))}

\* _rescale_layout(coords, bbox)
rescale_layout(cs, bbox) ==
    LET min_x == MinOf({c[1] : c \in {cs[j] : j \in 1 .. Len(cs)}})
        min_y == MinOf({c[2] : c \in {cs[j] : j \in 1 .. Len(cs)}})
        max_x == MaxOf({c[1] - min_x : c \in {cs[j] : j \in 1 .. Len(cs)}}) + min_x
        max_y == MaxOf({c[2] - min_y : c \in {cs[j] : j \in 1 .. Len(cs)}}) + min_y
        delta_x == IF ~(min_x = max_x) THEN max_x - min_x ELSE 1
        delta_y == IF ~(min_y = max_y) THEN max_y - min_y ELSE 1
    IN [j \in 1 .. Len(cs) |->
          <<Rat((cs[j][1] - min_x) * bbox.w + bbox.x * delta_x, delta_x * bbox.den),
            Rat((cs[j][2] - min_y) * bbox.h + bbox.y * delta_y, delta_y * bbox.den)>>]

LayoutIdle ==
    /\ graph = NoInputGraph
    /\ discovered = <<>>
    /\ order = <<>>
    /\ components = <<>>
    /\ vertex_ids = <<>>
    /\ vertex_sorter = <<>>
    /\ layouts = <<>>
    /\ component_layouts = <<>>
    /\ coords = <<>>

LayoutInit ==
    /\ graph \in Graphs
    /\ pad_x \in {0, MaxPad}
    /\ pad_y \in {0, MaxPad}
    /\ component_sizes = <<>>
    /\ arrange_boxes = ""
    /\ dimensions = <<>>
    /\ origins = <<>>
    /\ bboxes = <<>>
    /\ discovered = <<>>
    /\ order = <<>>
    /\ components = <<>>
    /\ vertex_ids = <<>>
    /\ vertex_sorter = <<>>
    /\ layouts = <<>>
    /\ component_layouts = <<>>
    /\ coords = <<>>

\* layout_components(graph, component_layout, arrange_boxes, pad_x, pad_y)
LayoutComponents ==
    /\ arrange_boxes = ""
    /\ \E strategy \in {"size", "rpack", "squarify"}, disc \in decompose(graph) :
         LET sizes0 == [c \in 1 .. Len(disc) |-> Len(disc[c])]
         IN \E ord \in argsort(sizes0) :
              LET comps == Take(disc, ord)
                  sizes == Take(sizes0, ord)
                  ids == Flatten(comps)
                  sorter == VertexSorter(ids)
              IN \E r \in bbox_fun(strategy, sizes, pad_x, pad_y), ls \in LayoutChoices(comps) :
                   LET cl == [c \in 1 .. Len(comps) |-> rescale_layout(ls[c], r.bboxes[c])]
                   IN /\ arrange_boxes' = strategy
                      /\ discovered' = disc
                      /\ order' = ord
                      /\ components' = comps
                      /\ component_sizes' = sizes
                      /\ vertex_ids' = ids
                      /\ vertex_sorter' = sorter
                      /\ dimensions' = r.dimensions
                      /\ origins' = r.origins
                      /\ bboxes' = r.bboxes
                      /\ layouts' = ls
                      /\ component_layouts' = cl
                      /\ coords' = Take(Flatten(cl), sorter)
    /\ UNCHANGED <<graph, pad_x, pad_y, graph_vars, patch_vars>>

LayoutNext == LayoutComponents

-----------------------------------------------------------------------------
(* The plot_edges monkey-patch *)

\* the function scanpy installed
ScanpyPlotEdges == <<"scanpy.plotting._utils.plot_edges", "">>
\* the closure plot_edges of _patch_plot_edges: _plot_edges with neighbors_key bound
Patched(key) == <<"_plot_edges", key>>
NeighborsKeys == {"tcr_neighbors", "neighbors"}

PatchInit ==
    /\ plot_edges = ScanpyPlotEdges
    /\ mpl_level = "WARNING"
    /\ stack = <<>>
    /\ exc = FALSE
    /\ last = ""

Top == stack[Len(stack)]
Pop == SubSeq(stack, 1, Len(stack) - 1)
InBody == IF stack = <<>> THEN TRUE ELSE Top.pc = "body"

patch_exit_without_finally(frame, current, raising) ==
    IF raising THEN current ELSE frame.saved

\* the finally clause of _patch_plot_edges: what plot_edges is set to
patch_exit(frame, current, raising) == frame.saved

\* _patch_plot_edges(neighbors_key) up to its yield
PatchEnter(key, by, pc) ==
    /\ ~exc
    /\ InBody
    /\ plot_edges' = Patched(key)
    /\ stack' = Append(stack, [kind |-> "patch", by |-> by, pc |-> pc,
                               neighbors_key |-> key, saved |-> plot_edges])
    /\ UNCHANGED <<mpl_level, exc, last, graph_vars, box_vars, layout_vars>>

\* with _patch_plot_edges(key): used on its own
WithPatchEnter ==
    /\ Len(stack) < MaxDepth
    /\ \E key \in NeighborsKeys : PatchEnter(key, "with", "body")

\* clonotype_network(adata, neighbors_key=key, ...) up to line 97
ClonotypeNetworkEnter ==
    /\ Len(stack) + 1 < MaxDepth
    /\ \E key \in NeighborsKeys : PatchEnter(key, "clonotype_network", "enter")

\* line 98: _no_matplotlib_warnings() up to its yield
NoWarnEnter ==
    /\ ~exc
    /\ stack # <<>>
    /\ Top.kind = "patch" /\ Top.pc = "enter"
    /\ mpl_level' = "ERROR"
    /\ stack' = Append([stack EXCEPT ![Len(stack)].pc = "inner"],
                       [kind |-> "nowarn", by |-> "clonotype_network", pc |-> "body",
                        neighbors_key |-> "", saved |-> mpl_level])
    /\ UNCHANGED <<plot_edges, exc, last, graph_vars, box_vars, layout_vars>>

\* the body of the innermost block (sc.pl.embedding for clonotype_network) raises
BodyRaises ==
    /\ ~exc
    /\ stack # <<>>
    /\ Top.pc = "body"
    /\ exc' = TRUE
    /\ UNCHANGED <<plot_edges, mpl_level, stack, last, graph_vars, box_vars, layout_vars>>

\* the finally clause of _no_matplotlib_warnings, on return or on an exception
NoWarnExit ==
    /\ stack # <<>>
    /\ Top.kind = "nowarn"
    /\ mpl_level' = Top.saved
    /\ stack' = [Pop EXCEPT ![Len(stack) - 1].pc = "exit"]
    /\ last' = (IF exc THEN "raised" ELSE "returned")
    /\ UNCHANGED <<plot_edges, exc, graph_vars, box_vars, layout_vars>>

\* the finally clause of _patch_plot_edges, on return or on an exception
PatchExit ==
    /\ stack # <<>>
    /\ Top.kind = "patch"
    /\ Top.pc \in {"body", "exit"}
    /\ plot_edges' = patch_exit(Top, plot_edges, exc)
    /\ stack' = Pop
    /\ last' = (IF exc THEN "raised" ELSE "returned")
    /\ UNCHANGED <<mpl_level, exc, graph_vars, box_vars, layout_vars>>

\* the exception is handled by the body of the enclosing block or by the caller
Catch ==
    /\ exc
    /\ InBody
    /\ exc' = FALSE
    /\ UNCHANGED <<plot_edges, mpl_level, stack, last, graph_vars, box_vars, layout_vars>>

PatchNext ==
    \/ WithPatchEnter
    \/ ClonotypeNetworkEnter
    \/ NoWarnEnter
    \/ BodyRaises
    \/ NoWarnExit
    \/ PatchExit
    \/ Catch

BoxNext == BboxSorted \/ BboxRpack \/ BboxSquarify

GraphNext == IgraphFromSparseMatrix \/ DistanceToConnectivity \/ GetIgraph

-----------------------------------------------------------------------------
(* Specifications: one per part of the program *)

InitGraph == GraphInit /\ BoxIdle /\ LayoutIdle /\ PatchInit
SpecGraph == InitGraph /\ [][GraphNext]_vars

InitBoxes == GraphIdle /\ BoxInit /\ LayoutIdle /\ PatchInit
SpecBoxes == InitBoxes /\ [][BoxNext]_vars

InitLayout == GraphIdle /\ LayoutInit /\ PatchInit
SpecLayout == InitLayout /\ [][LayoutNext]_vars

InitPatch == GraphIdle /\ BoxIdle /\ LayoutIdle /\ PatchInit
SpecPatch == InitPatch /\ [][PatchNext]_vars

-----------------------------------------------------------------------------
(* Claims about the graph builder *)

Converted ==
    /\ called \in {"igraph_from_sparse_matrix", "_distance_to_connectivity"}
    /\ (called = "igraph_from_sparse_matrix" => matrix_type = "distance")
    /\ raised = ""
    /\ max_value # {}

ExplicitMax == CHOOSE m \in max_value : TRUE
\* the connectivity the specification gives a stored distance code v
SpecConnectivity(v) == Rat(ExplicitMax - (v[1] - 1), ExplicitMax)
RatEq(a, b) == a[1] * b[2] = b[1] * a[2]

\* C2 (as claimed): with an explicit max_value every stored entry v becomes
\* c = (max_value - (v - 1)) / max_value, every entry with c <= 0 is absent
\* from the result, and no position absent from the input is present in it.
C2_AsClaimed ==
    Converted =>
        /\ DOMAIN connectivities.data \subseteq DOMAIN matrix.data
        /\ \A p \in DOMAIN matrix.data :
              LET c == SpecConnectivity(matrix.data[p])
              IN IF LeqZero(c)
                 THEN p \notin DOMAIN connectivities.data
                 ELSE /\ p \in DOMAIN connectivities.data
                      /\ RatEq(connectivities.data[p], c)

\* C5 (as claimed): igraph_from_sparse_matrix with matrix_type = "distance"
\* and a matrix that is not CSR fails with the format error and returns no graph.
C5_AsClaimed ==
    (called = "igraph_from_sparse_matrix" /\ matrix_type = "distance"
        /\ matrix.fmt # "csr")
    => (raised = FormatError /\ g = NoGraph)

\* C5 (amended): _distance_to_connectivity called directly on a matrix that
\* is not CSR raises the format error and converts nothing, while
\* igraph_from_sparse_matrix converts its argument to CSR first, never
\* raises the format error and returns a graph of the matrix's dimension.
C5_Amended ==
    /\ (called = "_distance_to_connectivity" /\ matrix.fmt # "csr")
         => (raised = FormatError /\ connectivities = NoMatrix)
    /\ called = "igraph_from_sparse_matrix"
         => (raised = "" /\ adj.fmt = "csr" /\ g.vcount = matrix.n)

C5_Witness ==
    /\ called = "_distance_to_connectivity"
    /\ matrix.fmt = "coo"
    /\ DOMAIN matrix.data # {}
    /\ raised = FormatError

Built == called \in {"igraph_from_sparse_matrix", "_get_igraph_from_adjacency"}
             /\ raised = ""
StoredNonzero(m) == {p \in DOMAIN m.data : ~IsZero(m.data[p])}
EdgesAt(p) == {k \in 1 .. Len(g.es) : g.es[k].source = p[1] /\ g.es[k].target = p[2]}

\* C6: _get_igraph_from_adjacency returns an undirected graph with exactly n
\* vertices and exactly one edge per stored nonzero coordinate pair, weighted
\* with the stored value (no deduplication of (i,j) and (j,i)); an all-zero
\* matrix gives n vertices and no edge; the warning is never emitted.
C6_GraphFromAdjacency ==
    Built =>
        /\ g.vcount = adj.n
        /\ ~g.directed
        /\ ~warned
        /\ Len(g.es) = Cardinality(StoredNonzero(adj))
        /\ \A p \in StoredNonzero(adj) :
              /\ Cardinality(EdgesAt(p)) = 1
              /\ \A k \in EdgesAt(p) : g.es[k].weight = adj.data[p]
        /\ (StoredNonzero(adj) = {} => g.es = <<>>)

C6_Witness ==
    /\ Built
    /\ <<0, 1>> \in StoredNonzero(adj)
    /\ EdgesAt(<<0, 1>>) # {}
    /\ EdgesAt(<<1, 0>>) # {}
    /\ EdgesAt(<<0, 1>>) # EdgesAt(<<1, 0>>)

-----------------------------------------------------------------------------
(* Claims about the box packers *)

\* two boxes of one call (same den) share an interior point
BoxesOverlap(a, b) ==
    /\ a.w > 0 /\ a.h > 0 /\ b.w > 0 /\ b.h > 0
    /\ a.x < b.x + b.w /\ b.x < a.x + a.w
    /\ a.y < b.y + b.h /\ b.y < a.y + a.h

PackerHypothesis ==
    /\ Len(origins) = Len(dimensions)
    /\ \A i, j \in 1 .. Len(origins) :
         i # j => ~RectsOverlap(origins[i], dimensions[i], origins[j], dimensions[j])

\* C3 (as claimed): with "rpack", given that the packer returned origins
\* without overlap for the padded footprints, no two returned boxes overlap.
C3_AsClaimed ==
    (arrange_boxes = "rpack" /\ PackerHypothesis) =>
        \A i, j \in 1 .. Len(bboxes) : i # j => ~BoxesOverlap(bboxes[i], bboxes[j])

\* the unpadded extent a strategy gives a component of size n, times den
ExtentFor(i) ==
    LET n == component_sizes[i]
        b == bboxes[i]
    IN CASE arrange_boxes = "size" -> {Pow08(n)}
         [] arrange_boxes = "rpack" ->
              LET d == (Pow08(n) + pad_x * Scale) \div Scale
                  e == enclosing_size(dimensions, origins)
              IN {d * e[1] - pad_x * b.den, d * e[2] - pad_x * b.den}
         [] arrange_boxes = "squarify" -> {200 * n - pad_x * b.den}

\* C4: each strategy returns exactly one box per input size, and the box at
\* output position i is the one computed for the size at input position i.
C4_OneBoxPerSizeInOrder ==
    arrange_boxes # "" =>
        /\ Len(bboxes) = Len(component_sizes)
        /\ \A i \in 1 .. Len(bboxes) :
              /\ bboxes[i].of = i - 1
              /\ bboxes[i].w \in ExtentFor(i)

C4_Witness ==
    /\ arrange_boxes \in {"rpack", "squarify"}
    /\ Len(component_sizes) = 3
    /\ component_sizes[1] < component_sizes[2]
    /\ component_sizes[2] < component_sizes[3]
    /\ bboxes[3].of = 2

PrevSize(i) == IF i = 1 THEN 1 ELSE component_sizes[i - 1]
PrevRowEnd(i) == IF i = 1 THEN 0
                 ELSE bboxes[i - 1].x + bboxes[i - 1].w + pad_x * Scale
PrevY(i) == IF i = 1 THEN 0 ELSE bboxes[i - 1].y

\* C8 (as claimed): a new row starts exactly when the size differs from the
\* one before; in a row x is the previous x plus that box's width plus
\* pad_x; on a row break x is 0 and y advances by the height of the row
\* just finished plus pad_y.
C8_AsClaimed ==
    arrange_boxes = "size" =>
        \A i \in 2 .. Len(bboxes) :
            IF component_sizes[i] # component_sizes[i - 1]
            THEN /\ bboxes[i].x = 0
                 /\ bboxes[i].y = bboxes[i - 1].y + bboxes[i - 1].h + pad_y * Scale
            ELSE /\ bboxes[i].x = PrevRowEnd(i)
                 /\ bboxes[i].y = bboxes[i - 1].y

\* C8 (amended): a new row starts exactly when the size differs from the one
\* before (the first size is compared with 1); in a row x is the previous x
\* plus that box's width plus pad_x; on a row break x is 0 and y advances by
\* the height of the component that starts the new row plus pad_y; for sizes
\* 3 and 5 the size-3 box comes first and the boxes do not overlap.
C8_Amended ==
    arrange_boxes = "size" =>
        /\ \A i \in 1 .. Len(bboxes) :
              /\ bboxes[i].w = Pow08(component_sizes[i])
              /\ bboxes[i].h = Pow08(component_sizes[i])
              /\ IF component_sizes[i] # PrevSize(i)
                 THEN /\ bboxes[i].x = 0
                      /\ bboxes[i].y = PrevY(i) + bboxes[i].h + pad_y * Scale
                 ELSE /\ bboxes[i].x = PrevRowEnd(i)
                      /\ bboxes[i].y = PrevY(i)
        /\ component_sizes = <<3, 5>> =>
              /\ bboxes[1].y < bboxes[2].y
              /\ ~BoxesOverlap(bboxes[1], bboxes[2])

C8_Witness ==
    /\ arrange_boxes = "size"
    /\ component_sizes = <<3, 5>>
    /\ bboxes[1].x = 0
    /\ bboxes[2].x = 0
    /\ bboxes[2].y = bboxes[1].y + bboxes[2].h + pad_y * Scale
    /\ bboxes[2].h > bboxes[1].h

-----------------------------------------------------------------------------
(* Claims about layout_components *)

LaidOut == arrange_boxes # "" /\ graph.n > 0

\* C1: layout_components returns exactly n rows and row i is the rescaled
\* coordinate computed for the vertex whose id is i: the ids collected over
\* the sorted components are a permutation of 0..n-1 and vertex_sorter is
\* its inverse.
C1_RowsFollowVertexIds ==
    LaidOut =>
        /\ Len(coords) = graph.n
        /\ Len(vertex_ids) = graph.n
        /\ {vertex_ids[k] : k \in 1 .. Len(vertex_ids)} = 0 .. graph.n - 1
        /\ \A i \in 0 .. graph.n - 1 :
              /\ At(vertex_ids, At(vertex_sorter, i)) = i
              /\ \E c \in 1 .. Len(components) : \E j \in 1 .. Len(components[c]) :
                    /\ components[c][j] = i
                    /\ At(coords, i) = component_layouts[c][j]

C1_Witness ==
    /\ LaidOut
    /\ Len(components) = 2
    /\ vertex_ids = <<2, 0, 1>>
    /\ vertex_sorter = <<1, 2, 0>>
    /\ Len(coords) = 3

SortedAscending ==
    /\ Len(order) = Len(discovered)
    /\ Len(components) = Len(discovered)
    /\ {order[i] : i \in 1 .. Len(order)} = 0 .. Len(discovered) - 1
    /\ \A i \in 1 .. Len(components) :
          /\ components[i] = At(discovered, order[i])
          /\ component_sizes[i] = Len(components[i])
    /\ \A i, j \in 1 .. Len(components) :
          i < j => component_sizes[i] <= component_sizes[j]

\* C7 (as claimed): the components are sorted by ascending vertex count and
\* components of equal vertex count keep their discovery order.
C7_AsClaimed ==
    LaidOut =>
        /\ SortedAscending
        /\ \A i, j \in 1 .. Len(components) :
              (i < j /\ component_sizes[i] = component_sizes[j]) => order[i] < order[j]

\* C7 (amended): the components are sorted by ascending vertex count; the
\* sorted list is a permutation of the discovered one, and components of
\* equal vertex count come in whatever order np.argsort returns.
C7_Amended == LaidOut => SortedAscending

C7_Witness ==
    /\ LaidOut
    /\ Len(discovered) = 2
    /\ Len(discovered[1]) > Len(discovered[2])
    /\ order = <<1, 0>>
    /\ components[1] = discovered[2]

\* a rational with positive denominator lies in [lo/den, hi/den]
RatBetween(r, lo, hi, den) ==
    /\ r[2] > 0
    /\ lo * r[2] <= r[1] * den
    /\ r[1] * den <= hi * r[2]

AxisMin(c, ax) == MinOf({layouts[c][j][ax] : j \in 1 .. Len(layouts[c])})
AxisDegenerate(c, ax) == \A j \in 1 .. Len(layouts[c]) : layouts[c][j][ax] = AxisMin(c, ax)
AxisExtent(c, ax) ==
    IF AxisDegenerate(c, ax) THEN 1
    ELSE MaxOf({layouts[c][j][ax] - AxisMin(c, ax) : j \in 1 .. Len(layouts[c])})
BoxOrigin(b, ax) == IF ax = 1 THEN b.x ELSE b.y
BoxExtent(b, ax) == IF ax = 1 THEN b.w ELSE b.h

\* new = (old - min) / extent * bbox_extent + bbox_origin, extent 1 on a degenerate axis
C9_Mapping ==
    LaidOut =>
        \A c \in 1 .. Len(components) : \A j \in 1 .. Len(components[c]) : \A ax \in {1, 2} :
            LET b == bboxes[c]
                new == component_layouts[c][j][ax]
                old == layouts[c][j][ax]
            IN /\ new[2] # 0
               /\ RatEq(new, Rat((old - AxisMin(c, ax)) * BoxExtent(b, ax)
                                    + BoxOrigin(b, ax) * AxisExtent(c, ax),
                                 AxisExtent(c, ax) * b.den))
               /\ old = AxisMin(c, ax) => RatEq(new, Rat(BoxOrigin(b, ax), b.den))

\* C9 (as claimed): _rescale_layout maps each axis as above, so every vertex
\* of a component ends up inside the component's box (origin <= new <=
\* origin + extent on each axis), the axis minimum lands on the box origin,
\* and on a degenerate axis every vertex lands on the box origin.
C9_AsClaimed ==
    /\ C9_Mapping
    /\ LaidOut =>
        \A c \in 1 .. Len(components) : \A j \in 1 .. Len(components[c]) : \A ax \in {1, 2} :
            LET b == bboxes[c]
                new == component_layouts[c][j][ax]
            IN RatBetween(new, BoxOrigin(b, ax), BoxOrigin(b, ax) + BoxExtent(b, ax), b.den)

-----------------------------------------------------------------------------
(* Claim about the monkey-patch *)

PatchFrames == {i \in 1 .. Len(stack) : stack[i].kind = "patch"}
InnermostPatch == stack[MaxOf(PatchFrames)]

\* C10: the patch is scoped.  While _patch_plot_edges blocks are active the
\* shared plot_edges is the patched function of the innermost one; once a
\* block is left, by return or by an exception, plot_edges is again what it
\* was when the block was entered, so after any sequence of sequential or
\* nested uses the original function is back.
C10_PatchIsScoped ==
    /\ PatchFrames = {} => plot_edges = ScanpyPlotEdges
    /\ PatchFrames # {} => plot_edges = Patched(InnermostPatch.neighbors_key)
    /\ \A i \in PatchFrames :
          stack[i].saved =
              (IF \E j \in PatchFrames : j < i
               THEN Patched(stack[MaxOf({j \in PatchFrames : j < i})].neighbors_key)
               ELSE ScanpyPlotEdges)

C10_Witness ==
    /\ exc
    /\ last = "raised"
    /\ stack = <<>>
    /\ plot_edges = ScanpyPlotEdges

=============================================================================
